---- MODULE Spec2Model ----
(***************************************************************************)
(* Model of the calculation entity hierarchy (app/models/calculation.py)   *)
(* and of the validation schema (app/schema/calculation.py).               *)
(*                                                                         *)
(* Strings are sequences of one-character strings so that str.lower() is   *)
(* computed character by character.  Operands are small integers; results  *)
(* of get_result() are exact rationals [num, den] in lowest terms (the     *)
(* rounding of IEEE floats is outside the model).  None is modelled by 0   *)
(* for identifiers and by the tag "none" for payload values.               *)
(***************************************************************************)
EXTENDS Integers, Sequences, FiniteSets, TLC

VARIABLES users, calculations, entity, call, last

vars == <<users, calculations, entity, call, last>>

---------------------------------------------------------------------------
(* Bounds *)

MaxOperand == 1
MaxUsers == 2
MaxRows == 2
MaxUpper == 1

Operands == (0 - 1)..MaxOperand
UserIds == 1..MaxUsers
RowIds == 1..MaxRows

---------------------------------------------------------------------------
(* Strings and str.lower() *)

LowerAlphabet ==
  <<"a","b","c","d","e","f","g","h","i","j","k","l","m",
    "n","o","p","q","r","s","t","u","v","w","x","y","z">>

UpperAlphabet ==
  <<"A","B","C","D","E","F","G","H","I","J","K","L","M",
    "N","O","P","Q","R","S","T","U","V","W","X","Y","Z">>

LowerChar(c) ==
  IF \E i \in 1..26 : UpperAlphabet[i] = c
    THEN LowerAlphabet[CHOOSE i \in 1..26 : UpperAlphabet[i] = c]
    ELSE c

UpperChar(c) ==
  IF \E i \in 1..26 : LowerAlphabet[i] = c
    THEN UpperAlphabet[CHOOSE i \in 1..26 : LowerAlphabet[i] = c]
    ELSE c

Lower(s) == [i \in 1..Len(s) |-> LowerChar(s[i])]

IsLowerCase(s) == \A i \in 1..Len(s) : \A j \in 1..26 : s[i] # UpperAlphabet[j]

addition == <<"a","d","d","i","t","i","o","n">>
subtraction == <<"s","u","b","t","r","a","c","t","i","o","n">>
multiplication == <<"m","u","l","t","i","p","l","i","c","a","t","i","o","n">>
division == <<"d","i","v","i","s","i","o","n">>
calculation == <<"c","a","l","c","u","l","a","t","i","o","n">>
power == <<"p","o","w","e","r">>
add == <<"a","d","d">>
subtract == <<"s","u","b","t","r","a","c","t">>
multiply == <<"m","u","l","t","i","p","l","y">>
divide == <<"d","i","v","i","d","e">>
invalid == <<"i","n","v","a","l","i","d">>

(* The spellings of a word with at most MaxUpper upper-case letters, and   *)
(* the all-upper-case spelling.                                            *)
Spellings(w) ==
  { [i \in 1..Len(w) |-> IF i \in S THEN UpperChar(w[i]) ELSE w[i]] :
      S \in { T \in SUBSET (1..Len(w)) :
                Cardinality(T) <= MaxUpper \/ T = 1..Len(w) } }

OperatorKinds == {addition, subtraction, multiplication, division}
SchemaTypes == {add, subtract, multiply, divide}

SpellingsOf == [w \in OperatorKinds \cup SchemaTypes \cup {power} |-> Spellings(w)]

KindInputs ==
  UNION { SpellingsOf[w] : w \in DOMAIN SpellingsOf }
    \cup {calculation, invalid, <<>>}

---------------------------------------------------------------------------
(* Exact rationals for the results of get_result() *)

Abs(n) == IF n < 0 THEN 0 - n ELSE n

RECURSIVE Gcd(_, _)
Gcd(m, n) == IF n = 0 THEN m ELSE Gcd(n, m % n)

Rat(n, d) ==
  LET g == Gcd(Abs(n), Abs(d))
      sg == IF d < 0 THEN 0 - 1 ELSE 1
  IN [num |-> (sg * n) \div g, den |-> (sg * d) \div g]

IntResult(n) == [num |-> n, den |-> 1]

NoResult == [num |-> 0, den |-> 0]

---------------------------------------------------------------------------
(* Entity hierarchy: app/models/calculation.py *)

(* The mapped classes in the order they are defined. *)
Classes == <<"Calculation", "Addition", "Subtraction", "Multiplication", "Division">>

ClassSet == { Classes[i] : i \in 1..Len(Classes) }

(* The identities with Addition named as the schema names it. *)
polymorphic_identity_add(cls) ==
  CASE cls = "Calculation" -> calculation
    [] cls = "Addition" -> add
    [] cls = "Subtraction" -> subtraction
    [] cls = "Multiplication" -> subtraction
    [] cls = "Division" -> division

(* __mapper_args__["polymorphic_identity"] of each class *)
polymorphic_identity(cls) ==
  CASE cls = "Calculation" -> calculation
    [] cls = "Addition" -> addition
    [] cls = "Subtraction" -> subtraction
    [] cls = "Multiplication" -> subtraction
    [] cls = "Division" -> division

(* The mapper registry keyed by discriminant: each class registers its     *)
(* identity when it is defined, a later class replacing an earlier one     *)
(* that used the same identity.                                            *)
HasPolymorphicIdentity(ident) ==
  \E i \in 1..Len(Classes) : polymorphic_identity(Classes[i]) = ident

polymorphic_map(ident) ==
  LET last_i == CHOOSE i \in 1..Len(Classes) :
                  /\ polymorphic_identity(Classes[i]) = ident
                  /\ \A j \in 1..Len(Classes) :
                        polymorphic_identity(Classes[j]) = ident => j <= i
  IN Classes[last_i]

NoEntity == [cls |-> "None", id |-> 0, user_id |-> 0, type |-> <<>>, a |-> 0, b |-> 0]

NoType == [given |-> FALSE, s |-> <<>>]
TypeArg(s) == [given |-> TRUE, s |-> s]

(* cls(user_id=..., a=..., b=...[, type=...]): the discriminant is set to  *)
(* the class's polymorphic identity when the object is initialised, then   *)
(* the keyword arguments are assigned, a given type replacing it.          *)
Construct(cls, type_arg, user_id, a, b) ==
  [cls |-> cls, id |-> 0, user_id |-> user_id,
   type |-> IF type_arg.given THEN type_arg.s ELSE polymorphic_identity(cls),
   a |-> a, b |-> b]

(* The lookup table with the entry of multiplication copied from the one   *)
(* above it.                                                               *)
calculation_classes_copied ==
  [k \in OperatorKinds |->
     CASE k = addition -> "Addition"
       [] k = subtraction -> "Subtraction"
       [] k = multiplication -> "Subtraction"
       [] k = division -> "Division"]

(* The lookup table of the factory *)
calculation_classes ==
  [k \in OperatorKinds |->
     CASE k = addition -> "Addition"
       [] k = subtraction -> "Subtraction"
       [] k = multiplication -> "Multiplication"
       [] k = division -> "Division"]

UnsupportedPrefix == "Unsupported calculation type: "

NoMsg == [text |-> "", arg |-> <<>>]

(* The factory reporting the lowercased key in place of its argument. *)
create_lowered(calculation_type, user_id, a, b) ==
  LET key == Lower(calculation_type)
  IN IF key \in DOMAIN calculation_classes
       THEN [ok |-> TRUE, err |-> "", msg |-> NoMsg,
             obj |-> Construct(calculation_classes[key], NoType, user_id, a, b)]
       ELSE [ok |-> FALSE, err |-> "ValueError",
             msg |-> [text |-> UnsupportedPrefix, arg |-> key],
             obj |-> NoEntity]

(* AbstractCalculation.create *)
create(calculation_type, user_id, a, b) ==
  LET key == Lower(calculation_type)
  IN IF key \in DOMAIN calculation_classes
       THEN [ok |-> TRUE, err |-> "", msg |-> NoMsg,
             obj |-> Construct(calculation_classes[key], NoType, user_id, a, b)]
       ELSE [ok |-> FALSE, err |-> "ValueError",
             msg |-> [text |-> UnsupportedPrefix, arg |-> calculation_type],
             obj |-> NoEntity]

DivisionByZeroText == "Division by zero not permitted."

Addition_get_result(self) ==
  [ok |-> TRUE, err |-> "", msg |-> NoMsg, result |-> IntResult(self.a + self.b)]

Subtraction_get_result(self) ==
  [ok |-> TRUE, err |-> "", msg |-> NoMsg, result |-> IntResult(self.a - self.b)]

Multiplication_get_result(self) ==
  [ok |-> TRUE, err |-> "", msg |-> NoMsg, result |-> IntResult(self.a * self.b)]

(* Division returning 0 for a zero divisor in place of raising. *)
Division_get_result_silent(self) ==
  IF self.b = 0
    THEN [ok |-> TRUE, err |-> "", msg |-> NoMsg, result |-> IntResult(0)]
    ELSE [ok |-> TRUE, err |-> "", msg |-> NoMsg, result |-> Rat(self.a, self.b)]

Division_get_result(self) ==
  IF self.b = 0
    THEN [ok |-> FALSE, err |-> "ValueError",
          msg |-> [text |-> DivisionByZeroText, arg |-> <<>>], result |-> NoResult]
    ELSE [ok |-> TRUE, err |-> "", msg |-> NoMsg, result |-> Rat(self.a, self.b)]

Abstract_get_result(self) ==
  [ok |-> FALSE, err |-> "NotImplementedError", msg |-> NoMsg, result |-> NoResult]

(* Method resolution of get_result() on the object's class *)
get_result(self) ==
  CASE self.cls = "Addition" -> Addition_get_result(self)
    [] self.cls = "Subtraction" -> Subtraction_get_result(self)
    [] self.cls = "Multiplication" -> Multiplication_get_result(self)
    [] self.cls = "Division" -> Division_get_result(self)
    [] OTHER -> Abstract_get_result(self)

---------------------------------------------------------------------------
(* Validation schema: app/schema/calculation.py *)

(* A python value of a payload: a str, an int, a float or None.  A float   *)
(* [tag "float", n] is the float equal to the integer n.                   *)
StrVal(s) == [tag |-> "str", s |-> s, n |-> 0]
IntVal(n) == [tag |-> "int", s |-> <<>>, n |-> n]
FloatVal(n) == [tag |-> "float", s |-> <<>>, n |-> n]
NoneVal == [tag |-> "none", s |-> <<>>, n |-> 0]

(* class CalculationType(str, Enum) *)
CalculationType == {add, subtract, multiply, divide}

CalculationType_DIVIDE == divide

MaxTypeLength == 50

TypeNotString == "Type must be a string"
TypeNotAllowed == "Type must be 'add', 'subtract', 'multiply' or 'divide'"
FirstNotNumber == "First value should be a number"
SecondNotNumber == "Second value should be a number"
DivideByZero == "Cannot divide by zero"
StringTooLong == "String should have at most 50 characters"
UuidRequired == "UUID input should be a string, bytes or UUID object"

Passed(v) == [ok |-> TRUE, err |-> "", val |-> v]
Failed(e) == [ok |-> FALSE, err |-> e, val |-> NoneVal]

(* The type validator comparing the string as given, without lowercasing. *)
check_type_is_valid_exact(v) ==
  LET allowed == CalculationType
  IN IF v.tag # "str" THEN Failed(TypeNotString)
     ELSE IF v.s \notin allowed THEN Failed(TypeNotAllowed)
     ELSE Passed(StrVal(Lower(v.s)))

(* @field_validator("type", mode="before") *)
check_type_is_valid(v) ==
  LET allowed == CalculationType
  IN IF v.tag # "str" THEN Failed(TypeNotString)
     ELSE IF Lower(v.s) \notin allowed THEN Failed(TypeNotAllowed)
     ELSE Passed(StrVal(Lower(v.s)))

(* @field_validator("a", mode="before") *)
check_a_is_number(v) ==
  IF v.tag # "int" /\ v.tag # "float" THEN Failed(FirstNotNumber) ELSE Passed(v)

(* @field_validator("b", mode="before") *)
check_b_is_number(v) ==
  IF v.tag # "int" /\ v.tag # "float" THEN Failed(SecondNotNumber) ELSE Passed(v)

(* type: str = Field(max_length=50), applied to the validator's output *)
str_field(r) ==
  IF ~r.ok THEN r
  ELSE IF Len(r.val.s) > MaxTypeLength THEN Failed(StringTooLong)
  ELSE r

(* a: float, b: float: an int that passed is converted to float *)
float_field(r) ==
  IF ~r.ok THEN r ELSE Passed(FloatVal(r.val.n))

(* @model_validator(mode="after") *)
check_div_by_zero(self) ==
  IF self.type.s = CalculationType_DIVIDE /\ self.b.n = 0
    THEN [ok |-> FALSE, err |-> DivideByZero]
    ELSE [ok |-> TRUE, err |-> ""]

FieldErrors(results) == { r.err : r \in { x \in results : ~x.ok } }

(* Validation running the model validator whether or not a field failed. *)
validate_model_eager(field_errors, model, none) ==
  LET after == IF check_div_by_zero(model).ok THEN {} ELSE {check_div_by_zero(model).err}
  IN IF field_errors \cup after # {}
       THEN [ok |-> FALSE, errors |-> field_errors \cup after, model |-> none]
       ELSE [ok |-> TRUE, errors |-> {}, model |-> model]

(* Pydantic's validation of a model: every field is validated and the      *)
(* errors of all fields are collected; the mode="after" model validator    *)
(* runs only when no field failed.                                         *)
validate_model(field_errors, model, none) ==
  IF field_errors # {}
    THEN [ok |-> FALSE, errors |-> field_errors, model |-> none]
  ELSE IF ~check_div_by_zero(model).ok
    THEN [ok |-> FALSE, errors |-> {check_div_by_zero(model).err}, model |-> none]
  ELSE [ok |-> TRUE, errors |-> {}, model |-> model]

NoModel == [type |-> NoneVal, a |-> NoneVal, b |-> NoneVal]

(* CalculationBase(type=..., a=..., b=...) *)
CalculationBase(payload) ==
  LET t == str_field(check_type_is_valid(payload.type))
      a == float_field(check_a_is_number(payload.a))
      b == float_field(check_b_is_number(payload.b))
  IN validate_model(FieldErrors({t, a, b}),
                    [type |-> t.val, a |-> a.val, b |-> b.val], NoModel)

(* class CalculationCreate(CalculationBase): no fields or validators added *)
CalculationCreate(payload) == CalculationBase(payload)

NoResponse == [id |-> 0, type |-> NoneVal, a |-> NoneVal, b |-> NoneVal, result |-> NoResult]

(* id: UUID = Field(...): None is not a UUID *)
uuid_field(id) ==
  IF id = 0 THEN Failed(UuidRequired) ELSE Passed(IntVal(id))

(* class CalculationResponse(CalculationBase): adds id and result, and     *)
(* inherits the validators of type, a, b and the model validator.          *)
CalculationResponse(id, type, a, b, result) ==
  LET i == uuid_field(id)
      t == str_field(check_type_is_valid(type))
      x == float_field(check_a_is_number(a))
      y == float_field(check_b_is_number(b))
  IN validate_model(FieldErrors({i, t, x, y}),
                    [id |-> id, type |-> t.val, a |-> x.val, b |-> y.val,
                     result |-> result], NoResponse)

---------------------------------------------------------------------------
(* State *)

(* users: the identifiers in the users table.                              *)
(* calculations: the calculations table, a row per identifier.             *)
(* entity: the calculation object the caller holds in memory.              *)
(* call: the call the caller is about to make, with its arguments.         *)
(* last: the outcome of the last operation: its arguments, whether it      *)
(*       raised, the exception and what it returned.                       *)

NoCall ==
  [op |-> "none", kind |-> <<>>, cls |-> "None", type_arg |-> NoType,
   user_id |-> 0, a |-> 0, b |-> 0, payload |-> NoModel]

NoLast ==
  [op |-> "init", arg |-> <<>>, type_arg |-> NoType, cls |-> "None", id |-> 0,
   removed |-> {},
   user_id |-> 0, a |-> 0, b |-> 0, ok |-> TRUE, err |-> "", msg |-> NoMsg,
   result |-> NoResult, payload |-> NoModel, errors |-> {}, model |-> NoResponse]

OwnerInputs == 0..MaxUsers

Addition_capitalised == <<"A","d","d","i","t","i","o","n">>

TypeArgInputs == {NoType, TypeArg(Addition_capitalised), TypeArg(addition), TypeArg(power)}

CreateCalls ==
  { [NoCall EXCEPT !.op = "create", !.kind = k, !.user_id = u, !.a = x, !.b = y] :
      k \in KindInputs, u \in OwnerInputs, x \in Operands, y \in Operands }

ConstructCalls ==
  { [NoCall EXCEPT !.op = "construct", !.cls = c, !.type_arg = t,
                   !.user_id = u, !.a = x, !.b = y] :
      c \in ClassSet, t \in TypeArgInputs, u \in OwnerInputs,
      x \in Operands, y \in Operands }

InitEntity ==
  /\ users = {}
  /\ calculations = <<>>
  /\ entity = NoEntity
  /\ call \in CreateCalls \cup ConstructCalls
  /\ last = NoLast

---------------------------------------------------------------------------
(* Operations on entities in memory *)

(* calc = Calculation.create(calculation_type=..., user_id=..., a=..., b=...) *)
Create ==
  /\ call.op = "create"
  /\ LET r == create(call.kind, call.user_id, call.a, call.b)
     IN /\ entity' = IF r.ok THEN r.obj ELSE entity
        /\ last' = [NoLast EXCEPT !.op = "create", !.arg = call.kind,
                                  !.user_id = call.user_id, !.a = call.a,
                                  !.b = call.b, !.ok = r.ok, !.err = r.err,
                                  !.msg = r.msg, !.cls = r.obj.cls]
  /\ call' = NoCall
  /\ UNCHANGED <<users, calculations>>

(* calc = Addition(user_id=..., a=..., b=...), and likewise for the other  *)
(* classes, the base class included, with or without a type argument.      *)
ConstructDirect ==
  /\ call.op = "construct"
  /\ entity' = Construct(call.cls, call.type_arg, call.user_id, call.a, call.b)
  /\ last' = [NoLast EXCEPT !.op = "construct", !.cls = call.cls,
                            !.type_arg = call.type_arg, !.user_id = call.user_id,
                            !.a = call.a, !.b = call.b]
  /\ call' = NoCall
  /\ UNCHANGED <<users, calculations>>

(* calc.get_result() *)
GetResult ==
  /\ entity.cls # "None"
  /\ LET r == get_result(entity)
     IN last' = [NoLast EXCEPT !.op = "get_result", !.cls = entity.cls,
                               !.ok = r.ok, !.err = r.err, !.msg = r.msg,
                               !.result = r.result]
  /\ UNCHANGED <<users, calculations, entity, call>>

UpdateInputs == {NoneVal} \cup { FloatVal(n) : n \in Operands }

(* class CalculationUpdate: a and b are optional and there is no type *)
CalculationUpdate(a, b) == [a |-> a, b |-> b]

(* The update path: the operands present in the update shape are assigned  *)
(* to the entity; its class and type are left alone.                       *)
UpdateOperands ==
  /\ entity.cls # "None"
  /\ \E x \in UpdateInputs, y \in UpdateInputs :
       LET u == CalculationUpdate(x, y)
       IN /\ entity' = [entity EXCEPT
                          !.a = IF u.a.tag = "none" THEN @ ELSE u.a.n,
                          !.b = IF u.b.tag = "none" THEN @ ELSE u.b.n]
          /\ last' = [NoLast EXCEPT !.op = "update", !.cls = entity.cls,
                                    !.a = entity'.a, !.b = entity'.b]
  /\ UNCHANGED <<users, calculations, call>>

NextEntity == Create \/ ConstructDirect \/ GetResult \/ UpdateOperands

EntitySpec == InitEntity /\ [][NextEntity]_vars

---------------------------------------------------------------------------
(* Operations of the validation schema *)

four == <<"f","o","u","r">>

TypeValInputs == { StrVal(k) : k \in KindInputs } \cup {IntVal(13), NoneVal}

NumberValInputs ==
  { IntVal(n) : n \in Operands } \cup { FloatVal(n) : n \in Operands }
    \cup {StrVal(four), NoneVal}

PayloadInputs ==
  { [type |-> t, a |-> x, b |-> y] :
      t \in TypeValInputs, x \in NumberValInputs, y \in NumberValInputs }

ValidateCalls ==
  { [NoCall EXCEPT !.op = "validate", !.payload = p] : p \in PayloadInputs }

RequestCalls ==
  { [NoCall EXCEPT !.op = "request", !.payload = p, !.user_id = u] :
      p \in PayloadInputs, u \in OwnerInputs }

InitSchema ==
  /\ users = {}
  /\ calculations = <<>>
  /\ entity = NoEntity
  /\ call \in ValidateCalls \cup RequestCalls
  /\ last = NoLast

AsResponse(m) ==
  [id |-> 0, type |-> m.type, a |-> m.a, b |-> m.b, result |-> NoResult]

(* calc = CalculationCreate applied to the payload *)
ValidateCreate ==
  /\ call.op = "validate"
  /\ LET r == CalculationCreate(call.payload)
     IN last' = [NoLast EXCEPT !.op = "validate", !.payload = call.payload,
                               !.ok = r.ok,
                               !.err = IF r.ok THEN "" ELSE "ValidationError",
                               !.errors = r.errors, !.model = AsResponse(r.model)]
  /\ call' = NoCall
  /\ UNCHANGED <<users, calculations, entity>>

(* The create pipeline: the payload is validated by the create shape and,  *)
(* when it is accepted, its normalized type and its operands are passed to *)
(* the factory.                                                            *)
CreateRequest ==
  /\ call.op = "request"
  /\ LET r == CalculationCreate(call.payload)
         f == create(r.model.type.s, call.user_id, r.model.a.n, r.model.b.n)
     IN IF ~r.ok
          THEN /\ last' = [NoLast EXCEPT !.op = "request", !.payload = call.payload,
                                         !.user_id = call.user_id, !.ok = FALSE,
                                         !.err = "ValidationError",
                                         !.errors = r.errors]
               /\ entity' = entity
          ELSE /\ last' = [NoLast EXCEPT !.op = "request", !.payload = call.payload,
                                         !.user_id = call.user_id,
                                         !.model = AsResponse(r.model),
                                         !.arg = r.model.type.s, !.ok = f.ok,
                                         !.err = f.err, !.msg = f.msg,
                                         !.cls = f.obj.cls]
               /\ entity' = IF f.ok THEN f.obj ELSE entity
  /\ call' = NoCall
  /\ UNCHANGED <<users, calculations>>

NextSchema == ValidateCreate \/ CreateRequest

SchemaSpec == InitSchema /\ [][NextSchema]_vars

---------------------------------------------------------------------------
(* Storage: the users and calculations tables *)

(* user_id = Column(UUID, ForeignKey('users.id', ondelete='CASCADE'),      *)
(*                  nullable=False): the checks made when a row is written *)
user_id_not_null(user_id) == user_id # 0

user_id_foreign_key(user_id, user_rows) == user_id \in user_rows

(* The foreign key without ondelete: the rows are left as they are. *)
user_id_ondelete_none(rows, user_id) == rows

(* ondelete='CASCADE': the rows that remain when a user row is deleted *)
user_id_ondelete(rows, user_id) ==
  [i \in { j \in DOMAIN rows : rows[j].user_id # user_id } |-> rows[i]]

AsRow(obj) == [user_id |-> obj.user_id, type |-> obj.type, a |-> obj.a, b |-> obj.b]

(* Loading a row: the class is the one registered for the row's            *)
(* discriminant (polymorphic_on = "type").                                 *)
load(id, row) ==
  IF HasPolymorphicIdentity(row.type)
    THEN [ok |-> TRUE, err |-> "",
          obj |-> [cls |-> polymorphic_map(row.type), id |-> id,
                   user_id |-> row.user_id, type |-> row.type,
                   a |-> row.a, b |-> row.b]]
    ELSE [ok |-> FALSE, err |-> "NoSuchPolymorphicIdentity", obj |-> NoEntity]

InitStore ==
  /\ users = {}
  /\ calculations = <<>>
  /\ entity = NoEntity
  /\ call = NoCall
  /\ last = NoLast

(* user = User(id=user_id, ...); db_session.add(user); db_session.commit() *)
CreateUser ==
  \E u \in UserIds :
    /\ u \notin users
    /\ users' = users \cup {u}
    /\ last' = [NoLast EXCEPT !.op = "create_user", !.user_id = u]
    /\ UNCHANGED <<calculations, entity, call>>

(* Deleting a user row; the calculations table follows its foreign key. *)
DeleteUser ==
  \E u \in users :
    /\ users' = users \ {u}
    /\ calculations' = user_id_ondelete(calculations, u)
    /\ last' = [NoLast EXCEPT !.op = "delete_user", !.user_id = u,
                              !.removed = DOMAIN calculations \ DOMAIN calculations']
    /\ UNCHANGED <<entity, call>>

(* The objects that are written: one per variant through the factory, and  *)
(* the base class with a type given, as in test_calculation_recording.     *)
RecordInputs(u) ==
  { create(addition, u, 1, 1).obj, create(subtraction, u, 1, 1).obj,
    create(multiplication, u, 1, 1).obj, create(division, u, 1, 1).obj,
    create(division, u, 1, 0).obj,
    Construct("Calculation", TypeArg(Addition_capitalised), u, 1, 2) }

(* calc = ...; db_session.add(calc); db_session.commit() *)
Record ==
  \E u \in OwnerInputs :
    \E obj \in RecordInputs(u) :
      IF user_id_not_null(obj.user_id) /\ user_id_foreign_key(obj.user_id, users)
        THEN \E id \in RowIds \ DOMAIN calculations :
               /\ calculations' = (id :> AsRow(obj)) @@ calculations
               /\ last' = [NoLast EXCEPT !.op = "record", !.id = id]
               /\ UNCHANGED <<users, entity, call>>
        ELSE /\ last' = [NoLast EXCEPT !.op = "record", !.ok = FALSE,
                                       !.err = "IntegrityError"]
             /\ UNCHANGED <<users, calculations, entity, call>>

(* The read path: the row is loaded, its result is computed and the        *)
(* response shape is built from the entity and the result.                 *)
ReadRequest ==
  \E id \in DOMAIN calculations :
    LET l == load(id, calculations[id])
        r == get_result(l.obj)
        resp == CalculationResponse(l.obj.id, StrVal(l.obj.type),
                                    FloatVal(l.obj.a), FloatVal(l.obj.b), r.result)
    IN /\ last' =
            IF ~l.ok
              THEN [NoLast EXCEPT !.op = "read", !.id = id, !.ok = FALSE,
                                  !.err = l.err]
            ELSE IF ~r.ok
              THEN [NoLast EXCEPT !.op = "read", !.id = id, !.cls = l.obj.cls,
                                  !.ok = FALSE, !.err = r.err, !.msg = r.msg]
            ELSE [NoLast EXCEPT !.op = "read", !.id = id, !.cls = l.obj.cls,
                                !.result = r.result, !.ok = resp.ok,
                                !.err = IF resp.ok THEN "" ELSE "ValidationError",
                                !.errors = resp.errors, !.model = resp.model]
       /\ UNCHANGED <<users, calculations, entity, call>>

NextStore == CreateUser \/ DeleteUser \/ Record \/ ReadRequest

StoreSpec == InitStore /\ [][NextStore]_vars

---------------------------------------------------------------------------
(* Properties of the factory and of get_result(), under EntitySpec *)

(* C1: for every spelling of an operator kind in upper and lower case the  *)
(* factory returns the matching variant with the given owner, a and b, and *)
(* get_result() of a variant is a+b, a-b, a*b or a/b (b # 0).              *)
C1_FactoryVariantAndResult ==
  /\ (last.op = "create" /\ \E k \in OperatorKinds : last.arg \in SpellingsOf[k]) =>
       /\ last.ok
       /\ entity.user_id = last.user_id
       /\ entity.a = last.a
       /\ entity.b = last.b
       /\ last.arg \in SpellingsOf[addition] => entity.cls = "Addition"
       /\ last.arg \in SpellingsOf[subtraction] => entity.cls = "Subtraction"
       /\ last.arg \in SpellingsOf[multiplication] => entity.cls = "Multiplication"
       /\ last.arg \in SpellingsOf[division] => entity.cls = "Division"
  /\ last.op = "get_result" =>
       /\ entity.cls = "Addition" =>
            last.ok /\ last.result = [num |-> entity.a + entity.b, den |-> 1]
       /\ entity.cls = "Subtraction" =>
            last.ok /\ last.result = [num |-> entity.a - entity.b, den |-> 1]
       /\ entity.cls = "Multiplication" =>
            last.ok /\ last.result = [num |-> entity.a * entity.b, den |-> 1]
       /\ (entity.cls = "Division" /\ entity.b # 0) =>
            /\ last.ok
            /\ last.result.den > 0
            /\ last.result.num * entity.b = entity.a * last.result.den

C1_Witness ==
  /\ last.op = "create"
  /\ last.arg \in SpellingsOf[multiplication]
  /\ ~IsLowerCase(last.arg)
  /\ entity.cls = "Multiplication"
  /\ entity.a = last.a /\ entity.b = last.b /\ entity.user_id = last.user_id

(* C2: a kind whose lowercase form is not an operator kind makes the       *)
(* factory fail with the unsupported-type error carrying the string as it  *)
(* was passed; no entity is constructed and the stored rows are unchanged. *)
C2_UnsupportedKind ==
  [][(call.op = "create" /\ last'.op = "create"
        /\ Lower(call.kind) \notin OperatorKinds) =>
       /\ ~last'.ok
       /\ last'.err = "ValueError"
       /\ last'.msg = [text |-> UnsupportedPrefix, arg |-> call.kind]
       /\ last'.cls = "None"
       /\ entity' = entity
       /\ calculations' = calculations]_vars

C2_Witness ==
  /\ last.op = "create"
  /\ ~last.ok
  /\ ~IsLowerCase(last.arg)
  /\ last.msg.arg = last.arg
  /\ entity = NoEntity

(* C3: a division entity is constructed with b = 0 without error, and each *)
(* get_result() call on a division entity fails with the division-by-zero  *)
(* error exactly when its b is 0 at that call, whatever a is.              *)
C3_DivisionByZeroAtCallTime ==
  /\ (last.op \in {"create", "construct"} /\ last.cls = "Division" /\ last.b = 0) =>
       last.ok /\ entity.cls = "Division" /\ entity.b = 0
  /\ (last.op = "get_result" /\ entity.cls = "Division") =>
       ((~last.ok /\ last.err = "ValueError" /\ last.msg.text = DivisionByZeroText)
          <=> entity.b = 0)

C3_Witness ==
  /\ last.op = "get_result"
  /\ entity.cls = "Division"
  /\ entity.b = 0
  /\ entity.a # 0
  /\ ~last.ok

(* C8 as stated: the type of every entity, however it was built, is one of *)
(* the four operator kinds.                                                *)
C8_KindAlwaysInClosedSet ==
  entity.cls # "None" => entity.type \in OperatorKinds

(* C8 as amended: the factory rejects every other kind, and an entity      *)
(* built by the factory or by a variant constructor without a type         *)
(* argument has a type among the four operator kinds; a constructor given  *)
(* a type argument keeps it as given, and the base class without one has   *)
(* the type "calculation".                                                 *)
C8_FactoryKindInClosedSet ==
  /\ (last.op = "create" /\ Lower(last.arg) \notin OperatorKinds) => ~last.ok
  /\ (last.op = "create" /\ last.ok) => entity.type \in OperatorKinds
  /\ (last.op = "construct" /\ last.cls # "Calculation" /\ ~last.type_arg.given) =>
       entity.type \in OperatorKinds
  /\ (last.op = "construct" /\ last.type_arg.given) =>
       last.ok /\ entity.type = last.type_arg.s
  /\ (last.op = "construct" /\ last.cls = "Calculation" /\ ~last.type_arg.given) =>
       entity.type = calculation

C8_Witness ==
  /\ last.op = "construct"
  /\ last.cls = "Calculation"
  /\ last.type_arg = TypeArg(Addition_capitalised)
  /\ entity.type = Addition_capitalised
  /\ entity.type \notin OperatorKinds

(* C10: an entity created by the factory has a type equal to the lowercase *)
(* kind it was created for, each variant having its own discriminant.      *)
C10_DistinctDiscriminants ==
  (last.op = "create" /\ last.ok) => entity.type = Lower(last.arg)

---------------------------------------------------------------------------
(* Properties of the create shape, under SchemaSpec *)

(* C4: the create shape accepts a payload exactly when type is a string    *)
(* whose lowercase form is add, subtract, multiply or divide, a and b are  *)
(* numbers, and it is not a divide with b = 0; the accepted type is stored *)
(* in lowercase; a type that is not a string gets the must-be-a-string     *)
(* error and an unmatched string the must-be-one-of error.                 *)
C4_CreateShapeAcceptance ==
  last.op = "validate" =>
    LET p == last.payload
        matches == p.type.tag = "str" /\ Lower(p.type.s) \in SchemaTypes
        numeric == p.a.tag \in {"int", "float"} /\ p.b.tag \in {"int", "float"}
    IN /\ last.ok <=>
            (matches /\ numeric /\ ~(Lower(p.type.s) = divide /\ p.b.n = 0))
       /\ last.ok =>
            /\ last.model.type = StrVal(Lower(p.type.s))
            /\ IsLowerCase(last.model.type.s)
            /\ last.model.a.n = p.a.n
            /\ last.model.b.n = p.b.n
       /\ p.type.tag # "str" =>
            TypeNotString \in last.errors /\ TypeNotAllowed \notin last.errors
       /\ (p.type.tag = "str" /\ Lower(p.type.s) \notin SchemaTypes) =>
            TypeNotAllowed \in last.errors /\ TypeNotString \notin last.errors

C4_Witness ==
  /\ last.op = "validate"
  /\ last.ok
  /\ last.payload.type.s \in SpellingsOf[subtract]
  /\ ~IsLowerCase(last.payload.type.s)
  /\ last.model.type.s = subtract

(* C5: the divide-by-zero error is reported only when the checks of type,  *)
(* a and b have all passed, and it is decided on the normalized type: a    *)
(* divide in any case with b = 0 and a non-numeric a gets the error of a   *)
(* and no divide-by-zero error, and a divide in any case with numeric a    *)
(* and b = 0 gets the divide-by-zero error.                                *)
C5_DivideByZeroAfterFieldChecks ==
  last.op = "validate" =>
    LET p == last.payload
        is_divide == p.type.tag = "str" /\ p.type.s \in SpellingsOf[divide]
        a_numeric == p.a.tag \in {"int", "float"}
        b_zero == p.b.tag \in {"int", "float"} /\ p.b.n = 0
    IN /\ DivideByZero \in last.errors =>
            /\ last.errors = {DivideByZero}
            /\ is_divide /\ a_numeric /\ b_zero
       /\ (is_divide /\ b_zero /\ ~a_numeric) =>
            ~last.ok /\ last.errors = {FirstNotNumber}
       /\ (is_divide /\ b_zero /\ a_numeric) =>
            ~last.ok /\ last.errors = {DivideByZero}

C5_Witness ==
  /\ last.op = "validate"
  /\ last.payload.type.s = <<"D","i","v","i","d","e">>
  /\ last.payload.a.tag = "str"
  /\ last.payload.b = IntVal(0)
  /\ last.errors = {FirstNotNumber}

(* C9: every type the create shape accepts and normalizes is accepted by   *)
(* the factory, which constructs the variant of that operator.             *)
C9_ValidatedTypeAcceptedByFactory ==
  (last.op = "request" /\ last.err # "ValidationError") =>
    /\ last.ok
    /\ last.arg = add => entity.cls = "Addition"
    /\ last.arg = subtract => entity.cls = "Subtraction"
    /\ last.arg = multiply => entity.cls = "Multiplication"
    /\ last.arg = divide => entity.cls = "Division"

---------------------------------------------------------------------------
(* Properties of the stored rows, under StoreSpec *)

(* C6: for a stored entity whose result is computed, the response shape    *)
(* built from its identifier, type, a, b and result is constructed and     *)
(* carries that result and the entity's type, a and b.                     *)
C6_ResponseRoundTrip ==
  (last.op = "read" /\ last.result # NoResult) =>
    /\ last.ok
    /\ last.model.result = last.result
    /\ last.model.id = last.id
    /\ last.model.type.s = calculations[last.id].type
    /\ last.model.a.n = calculations[last.id].a
    /\ last.model.b.n = calculations[last.id].b

(* C7: every stored calculation has an owner, and the owner is a user that *)
(* exists; deleting a user removes exactly the calculations it owned.      *)
C7_NoOrphanCalculations ==
  /\ \A id \in DOMAIN calculations :
       /\ calculations[id].user_id # 0
       /\ calculations[id].user_id \in users
  /\ last.op = "delete_user" =>
       /\ last.user_id \notin users
       /\ \A id \in DOMAIN calculations : calculations[id].user_id # last.user_id
  /\ (last.op = "record" /\ ~last.ok) => last.err = "IntegrityError"

C7_Witness ==
  /\ last.op = "delete_user"
  /\ last.removed # {}
  /\ DOMAIN calculations # {}

====
